---- MODULE Spec2Model ----
(***************************************************************************)
(* Shadow Sprint API (src/main.py, src/schemas.py): player settings, level *)
(* progress, ghost replays and tier classification over a document store.  *)
(*                                                                         *)
(* A collection is a bag of documents; a document is a record whose DOMAIN *)
(* is the set of keys it holds.  The store returns documents in natural    *)
(* order, which it does not specify: when several documents match a        *)
(* filter, which one find_one returns or update_one changes is a           *)
(* nondeterministic choice.  An Optional value (Python None or a value) is *)
(* the empty sequence or a one-element sequence.                           *)
(***************************************************************************)
EXTENDS Integers, Sequences, FiniteSets, Bags, TLC

VARIABLES
    db,         \* "None" when no database is configured, else "connected"
    settings,   \* collection playersettings
    progress,   \* collection progressrecord
    ghost,      \* collection ghostrecord
    req,        \* the request handled last (sequential handlers)
    resp,       \* the response to req
    best,       \* history: per (player_id, level), the least time_ms submitted
    inflight,   \* bag of the requests in progress (interleaved handlers)
    highest     \* history: per player, the highest unlocked_upto ever stored

vars == <<db, settings, progress, ghost, req, resp, best, inflight, highest>>

----------------------------------------------------------------------------
(* Bounds of the model and program constants *)

MAX_LEVELS == 15

\* how far outside 1..MAX_LEVELS-1 a reported won_level is drawn
MaxBeyond == 2

\* how many completion times above the first one a ghost submission draws from
MaxTimeSteps == 3

\* how many requests are in flight together in the interleaved specifications
MaxInflight == 2

Players == {"p1", "p2"}

WonLevels == (1 - MaxBeyond) .. (MAX_LEVELS - 1 + MaxBeyond)

\* p1 submits for a level of the game and for one outside it, p2 for a level
GhostKeys == {<<"p1", 3>>, <<"p1", 0>>, <<"p2", 3>>}

Times == {-1} \cup {3500 + 2000 * k : k \in 0 .. MaxTimeSteps}

TapTrace == <<[start_ms |-> 0, end_ms |-> 120, kind |-> "tap"]>>

InputTraces == {<< >>, TapTrace}

Languages == {"en", "es", "fr"}

None == << >>

Some(v) == <<v>>

OptBool == {None, Some(TRUE), Some(FALSE)}

OptLanguage == {None} \cup {Some(l) : l \in Languages}

\* what the interleaved requests report and submit
ConcUnlocks == {<<"p1", 3>>, <<"p1", 14>>, <<"p1", 15>>}

ConcGhostUpsert ==
    {[player_id |-> "p1", level |-> 3, time_ms |-> t, inputs |-> i] :
        t \in {5500, 7500}, i \in InputTraces}
    \cup {[player_id |-> "p2", level |-> 3, time_ms |-> 5500, inputs |-> << >>]}

\* the update_settings requests of the interleaved settings specification
ConcSettingsUpdate ==
    {<<"p1", [volume |-> Some(FALSE), vibration |-> None, language |-> None]>>,
     <<"p1", [volume |-> Some(TRUE), vibration |-> Some(FALSE), language |-> Some("en")]>>}

SetMin(S) == CHOOSE x \in S : \A y \in S : x <= y

SetMax(S) == CHOOSE x \in S : \A y \in S : x >= y

----------------------------------------------------------------------------
(* The document store *)

Matches(doc, filter) ==
    \A k \in DOMAIN filter : k \in DOMAIN doc /\ doc[k] = filter[k]

Matching(coll, filter) == {doc \in BagToSet(coll) : Matches(doc, filter)}

\* find_one: the outcomes are the matching documents, or None when none matches
FindOne(coll, filter) ==
    IF Matching(coll, filter) = {} THEN {None}
    ELSE {Some(doc) : doc \in Matching(coll, filter)}

\* $set: the keys of fields are written, every other key is kept
SetFields(doc, fields) ==
    [k \in DOMAIN doc \cup DOMAIN fields |->
        IF k \in DOMAIN fields THEN fields[k] ELSE doc[k]]

InsertOne(coll, doc) == coll (+) SetToBag({doc})

ReplaceOne(coll, doc, by) == InsertOne(coll (-) SetToBag({doc}), by)

\* update_one with $set: the outcomes change one matching document; with upsert
\* and no match, the filter's fields are inserted together with the fields set
UpdateOne(coll, filter, fields, upsert) ==
    IF Matching(coll, filter) # {}
    THEN {ReplaceOne(coll, doc, SetFields(doc, fields)) : doc \in Matching(coll, filter)}
    ELSE IF upsert THEN {InsertOne(coll, SetFields(filter, fields))}
    ELSE {coll}

\* create_document: insert_one of the model's dump
CreateDocument(coll, doc) == InsertOne(coll, doc)

----------------------------------------------------------------------------
(* Schemas *)

PlayerSettingsDefault(player_id) ==
    [player_id |-> player_id, volume |-> TRUE, vibration |-> TRUE, language |-> "es"]

\* mutant: the default counts levels from 0
ProgressRecordDefaultZero(player_id) ==
    [player_id |-> player_id, unlocked_upto |-> 0]

ProgressRecordDefault(player_id) ==
    [player_id |-> player_id, unlocked_upto |-> 1]

SettingsKeys == {"player_id", "volume", "vibration", "language"}

ProgressKeys == {"player_id", "unlocked_upto"}

GhostFields == {"player_id", "level", "time_ms", "inputs"}

Ok(body) == [status |-> 200, body |-> body]

ServerError == [status |-> 500, body |-> [detail |-> "Internal Server Error"]]

StatusOk == Ok([status |-> "ok"])

\* {k: doc[k] for k in keys}: a KeyError when doc lacks one of the keys
Project(doc, keys) ==
    IF keys \subseteq DOMAIN doc THEN Ok([k \in keys |-> doc[k]]) ELSE ServerError

----------------------------------------------------------------------------
(* Initial state: an empty store, configured or not; no request yet *)

Init ==
    /\ db \in {"None", "connected"}
    /\ settings = EmptyBag
    /\ progress = EmptyBag
    /\ ghost = EmptyBag
    /\ req = [op |-> "none"]
    /\ resp = [status |-> 0, body |-> [detail |-> "no request yet"]]
    /\ best = [key \in GhostKeys |-> None]
    /\ inflight = EmptyBag
    /\ highest = [p \in Players |-> 0]

----------------------------------------------------------------------------
(* Service endpoints *)

Root ==
    /\ req' = [op |-> "root"]
    /\ resp' = Ok([name |-> "Shadow Sprint API", status |-> "ok"])
    /\ UNCHANGED <<db, settings, progress, ghost, best, inflight, highest>>

\* the two marks of the response are written without their leading symbol
TestDatabase ==
    /\ req' = [op |-> "test_database"]
    /\ resp' = Ok([backend |-> "Running",
                   database |-> IF db = "None" THEN "Not Available" ELSE "Connected"])
    /\ UNCHANGED <<db, settings, progress, ghost, best, inflight, highest>>

----------------------------------------------------------------------------
(* Settings endpoints *)

\* mutant: the default language is English
DefaultSettingsBodyEnglish == [volume |-> TRUE, vibration |-> TRUE, language |-> "en"]

\* the settings returned when no database is configured
DefaultSettingsBody == [volume |-> TRUE, vibration |-> TRUE, language |-> "es"]

GetSettings(player_id) ==
    /\ req' = [op |-> "get_settings", player_id |-> player_id]
    /\ IF db = "None"
       THEN /\ resp' = Ok(DefaultSettingsBody)
            /\ settings' = settings
       ELSE \E doc \in FindOne(settings, [player_id |-> player_id]) :
            IF doc = None
            THEN /\ settings' = CreateDocument(settings, PlayerSettingsDefault(player_id))
                 /\ resp' = Ok(PlayerSettingsDefault(player_id))
            ELSE /\ settings' = settings
                 /\ resp' = Project(doc[1], SettingsKeys)
    /\ UNCHANGED <<db, progress, ghost, best, inflight, highest>>

\* SettingsUpdate: three Optional fields, language any string
SettingsUpdate == [volume : OptBool, vibration : OptBool, language : OptLanguage]

\* {k: v for k, v in payload.model_dump().items() if v is not None}
NotNoneFields(payload) ==
    [k \in {f \in DOMAIN payload : payload[f] # None} |-> payload[k][1]]

UpdateSettings(player_id, payload) ==
    LET data == NotNoneFields(payload) IN
    /\ req' = [op |-> "update_settings", player_id |-> player_id, payload |-> payload]
    /\ IF db = "None"
       THEN /\ resp' = Ok(SetFields(SetFields([player_id |-> player_id],
                                              DefaultSettingsBody), data))
            /\ settings' = settings
       ELSE \E updated \in UpdateOne(settings, [player_id |-> player_id], data, TRUE) :
            \E doc \in FindOne(updated, [player_id |-> player_id]) :
               /\ settings' = updated
               /\ resp' = Project(doc[1], SettingsKeys)
    /\ UNCHANGED <<db, progress, ghost, best, inflight, highest>>

----------------------------------------------------------------------------
(* Levels and progress *)

\* the unlocked_upto values stored for a player
StoredUnlocked(coll, player_id) ==
    {doc.unlocked_upto : doc \in Matching(coll, [player_id |-> player_id])}

Highest(coll) ==
    [p \in Players |-> SetMax({highest[p]} \cup StoredUnlocked(coll, p))]

GetProgress(player_id) ==
    /\ req' = [op |-> "get_progress", player_id |-> player_id]
    /\ IF db = "None"
       THEN /\ resp' = Ok(ProgressRecordDefault(player_id))
            /\ progress' = progress
       ELSE \E doc \in FindOne(progress, [player_id |-> player_id]) :
            IF doc = None
            THEN /\ progress' = CreateDocument(progress, ProgressRecordDefault(player_id))
                 /\ resp' = Ok(ProgressRecordDefault(player_id))
            ELSE /\ progress' = progress
                 /\ resp' = Project(doc[1], ProgressKeys)
    /\ highest' = Highest(progress')
    /\ UNCHANGED <<db, settings, ghost, best, inflight>>

\* list(range(1, MAX_LEVELS + 1))
GetLevels ==
    /\ req' = [op |-> "get_levels"]
    /\ resp' = Ok([levels |-> [i \in 1 .. MAX_LEVELS |-> i]])
    /\ UNCHANGED <<db, settings, progress, ghost, best, inflight, highest>>

\* mutant: the last level is taken for a level that unlocks the next
OutOfRangeLastLevelIn(won_level) == won_level < 1 \/ won_level > MAX_LEVELS

\* progress.won_level < 1 or progress.won_level >= MAX_LEVELS
OutOfRange(won_level) == won_level < 1 \/ won_level >= MAX_LEVELS

\* rec.get("unlocked_upto", 1)
UnlockedOf(rec) == IF "unlocked_upto" \in DOMAIN rec THEN rec.unlocked_upto ELSE 1

\* mutant: the write is not conditional
ShouldUnlockAlways(won_level, unlocked) == TRUE

\* progress.won_level >= unlocked
ShouldUnlock(won_level, unlocked) == won_level >= unlocked

\* mutant: the level won is written, not the one after it
NextUnlockedSame(won_level) == won_level

\* the value unlock_next writes
NextUnlocked(won_level) == won_level + 1

\* rec is None: the default record is created
CreatedIfAbsent(coll, rec, player_id) ==
    IF rec = None THEN CreateDocument(coll, ProgressRecordDefault(player_id)) ELSE coll

\* mutant: a win unlocks one level past the one read, whichever level was won
UnlockWrittenOneStep(coll, rec, player_id, won_level) ==
    IF ShouldUnlock(won_level, UnlockedOf(rec[1]))
    THEN UpdateOne(coll, [player_id |-> player_id],
                   [unlocked_upto |-> UnlockedOf(rec[1]) + 1], FALSE)
    ELSE {coll}

\* the outcomes of comparing with the record read and writing the next level
UnlockWritten(coll, rec, player_id, won_level) ==
    IF ShouldUnlock(won_level, UnlockedOf(rec[1]))
    THEN UpdateOne(coll, [player_id |-> player_id],
                   [unlocked_upto |-> NextUnlocked(won_level)], FALSE)
    ELSE {coll}

UnlockNext(player_id, won_level) ==
    /\ req' = [op |-> "unlock_next", player_id |-> player_id, won_level |-> won_level]
    /\ resp' = StatusOk
    /\ IF OutOfRange(won_level) \/ db = "None"
       THEN progress' = progress
       ELSE \E found \in FindOne(progress, [player_id |-> player_id]) :
            LET created == CreatedIfAbsent(progress, found, player_id) IN
            \E rec \in (IF found = None
                        THEN FindOne(created, [player_id |-> player_id])
                        ELSE {found}) :
               progress' \in UnlockWritten(created, rec, player_id, won_level)
    /\ highest' = Highest(progress')
    /\ UNCHANGED <<db, settings, ghost, best, inflight>>

----------------------------------------------------------------------------
(* Ghosts *)

\* mutant: range(10) taken from 1, so the taps start at 700 and end past 7000
GenericGhostFromOne(player_id, level) ==
    [player_id |-> player_id, level |-> level, time_ms |-> 8000,
     inputs |-> [i \in 1 .. 10 |->
                    [start_ms |-> i * 700, end_ms |-> i * 700 + 120, kind |-> "tap"]]]

\* slow linear taps every 700ms
GenericGhost(player_id, level) ==
    [player_id |-> player_id, level |-> level, time_ms |-> 8000,
     inputs |-> [i \in 1 .. 10 |->
                    [start_ms |-> (i - 1) * 700, end_ms |-> (i - 1) * 700 + 120,
                     kind |-> "tap"]]]

\* mutant: the generic ghost is stored when no record exists, as get_settings
\* and get_progress store their defaults
GetGhostStoringGeneric(player_id, level) ==
    /\ req' = [op |-> "get_ghost", player_id |-> player_id, level |-> level]
    /\ IF db = "None"
       THEN resp' = Ok(GenericGhost(player_id, level)) /\ ghost' = ghost
       ELSE \E doc \in FindOne(ghost, [player_id |-> player_id, level |-> level]) :
            IF doc = None
            THEN /\ resp' = Ok(GenericGhost(player_id, level))
                 /\ ghost' = CreateDocument(ghost, GenericGhost(player_id, level))
            ELSE resp' = Project(doc[1], GhostFields) /\ ghost' = ghost
    /\ UNCHANGED <<db, settings, progress, best, inflight, highest>>

GetGhost(player_id, level) ==
    /\ req' = [op |-> "get_ghost", player_id |-> player_id, level |-> level]
    /\ IF db = "None"
       THEN resp' = Ok(GenericGhost(player_id, level))
       ELSE \E doc \in FindOne(ghost, [player_id |-> player_id, level |-> level]) :
            IF doc = None
            THEN resp' = Ok(GenericGhost(player_id, level))
            ELSE resp' = Project(doc[1], GhostFields)
    /\ UNCHANGED <<db, settings, progress, ghost, best, inflight, highest>>

\* GhostUpsert: level and time_ms any integer, inputs any list
GhostUpsert ==
    {[player_id |-> key[1], level |-> key[2], time_ms |-> t, inputs |-> i] :
        key \in GhostKeys, t \in Times, i \in InputTraces}

\* existing.get("time_ms", 1e9)
TimeOf(existing) == IF "time_ms" \in DOMAIN existing THEN existing.time_ms ELSE 1000000000

\* mutant: the upsert is not conditional
ShouldStoreAlways(payload, existing) == TRUE

\* mutant: an equal time replaces the record
ShouldStoreOnTie(payload, existing) ==
    existing = None \/ payload.time_ms <= TimeOf(existing[1])

\* not existing or payload.time_ms < existing.get("time_ms", 1e9)
ShouldStore(payload, existing) ==
    existing = None \/ payload.time_ms < TimeOf(existing[1])

GhostFilter(payload) == [player_id |-> payload.player_id, level |-> payload.level]

\* mutant: a record that exists gets the new time_ms only and keeps its inputs
GhostWrittenTimeOnly(coll, payload, existing) ==
    IF ShouldStore(payload, existing)
    THEN UpdateOne(coll, GhostFilter(payload),
                   IF existing = None THEN payload ELSE [time_ms |-> payload.time_ms],
                   TRUE)
    ELSE {coll}

\* the outcomes of the conditional update_one with upsert
GhostWritten(coll, payload, existing) ==
    IF ShouldStore(payload, existing)
    THEN UpdateOne(coll, GhostFilter(payload), payload, TRUE)
    ELSE {coll}

\* the least time_ms submitted for the payload's key, this one included
Best(payload) ==
    LET key == <<payload.player_id, payload.level>> IN
    [best EXCEPT ![key] =
        IF @ = None \/ payload.time_ms < @[1] THEN Some(payload.time_ms) ELSE @]

UpsertGhost(payload) ==
    /\ req' = [op |-> "upsert_ghost", payload |-> payload]
    /\ resp' = StatusOk
    /\ best' = Best(payload)
    /\ IF db = "None"
       THEN ghost' = ghost
       ELSE \E existing \in FindOne(ghost, GhostFilter(payload)) :
            ghost' \in GhostWritten(ghost, payload, existing)
    /\ UNCHANGED <<db, settings, progress, inflight, highest>>

----------------------------------------------------------------------------
(* Classification *)

\* find: the time_ms of every matching document, t.get("time_ms", 0), as a bag
FoundTimes(coll, filter) ==
    LET docs == Matching(coll, filter)
        time(doc) == IF "time_ms" \in DOMAIN doc THEN doc.time_ms ELSE 0
    IN [t \in {time(doc) : doc \in docs} |->
           BagCardinality([doc \in {d \in docs : time(d) = t} |-> CopiesIn(doc, coll)])]

RECURSIVE SumTimes(_)
\* sum(... for t in times)
SumTimes(times) ==
    IF DOMAIN times = {} THEN 0
    ELSE LET t == CHOOSE x \in DOMAIN times : TRUE
         IN t * times[t] + SumTimes([u \in DOMAIN times \ {t} |-> times[u]])

\* mutant: a mean of exactly 5500 counts as Gold
TierGoldInclusive(times) ==
    IF DOMAIN times = {} THEN "Bronze"
    ELSE IF SumTimes(times) <= 5500 * BagCardinality(times) THEN "Gold"
    ELSE IF SumTimes(times) < 7500 * BagCardinality(times) THEN "Silver"
    ELSE "Bronze"

\* avg = sum / max(1, len) compared with 5500 and 7500, over the integers
Tier(times) ==
    IF DOMAIN times = {} THEN "Bronze"
    ELSE IF SumTimes(times) < 5500 * BagCardinality(times) THEN "Gold"
    ELSE IF SumTimes(times) < 7500 * BagCardinality(times) THEN "Silver"
    ELSE "Bronze"

Classification(player_id) ==
    /\ req' = [op |-> "classification", player_id |-> player_id]
    /\ IF db = "None"
       THEN resp' = Ok([tier |-> "Bronze"])
       ELSE resp' = Ok([tier |-> Tier(FoundTimes(ghost, [player_id |-> player_id]))])
    /\ UNCHANGED <<db, settings, progress, ghost, best, inflight, highest>>

----------------------------------------------------------------------------
(* Requests handled one after another, per component *)

NextSettings ==
    \/ \E p \in Players : GetSettings(p)
    \/ \E p \in Players, payload \in SettingsUpdate : UpdateSettings(p, payload)

NextProgress ==
    \/ \E p \in Players : GetProgress(p)
    \/ \E p \in Players, w \in WonLevels : UnlockNext(p, w)

NextGhost ==
    \/ \E key \in GhostKeys : GetGhost(key[1], key[2])
    \/ \E payload \in GhostUpsert : UpsertGhost(payload)
    \/ \E p \in Players : Classification(p)

\* every endpoint, one request after another
Next ==
    \/ Root
    \/ TestDatabase
    \/ \E p \in Players : GetSettings(p)
    \/ \E u \in ConcSettingsUpdate : UpdateSettings(u[1], u[2])
    \/ GetLevels
    \/ \E p \in Players : GetProgress(p)
    \/ \E u \in ConcUnlocks : UnlockNext(u[1], u[2])
    \/ \E key \in GhostKeys : GetGhost(key[1], key[2])
    \/ \E payload \in ConcGhostUpsert : UpsertGhost(payload)
    \/ \E p \in Players : Classification(p)

Spec == Init /\ [][Next]_vars

SpecSettings == Init /\ [][NextSettings]_vars

SpecProgress == Init /\ [][NextProgress]_vars

SpecGhost == Init /\ [][NextGhost]_vars

----------------------------------------------------------------------------
(* Requests handled concurrently: each access to the store is one step, and *)
(* a request keeps what it read between its steps                          *)

Arrive(r) ==
    /\ BagCardinality(inflight) < MaxInflight
    /\ inflight' = inflight (+) SetToBag({r})

Advance(r, to) == inflight' = (inflight (-) SetToBag({r})) (+) SetToBag({to})

Return(r) == inflight' = inflight (-) SetToBag({r})

\* unlock_next up to the first find_one
UnlockFind(player_id, won_level) ==
    /\ ~(OutOfRange(won_level) \/ db = "None")
    /\ \E rec \in FindOne(progress, [player_id |-> player_id]) :
          Arrive([op |-> "unlock_next", pc |-> IF rec = None THEN "create" ELSE "compare",
                  player_id |-> player_id, won_level |-> won_level, rec |-> rec])
    /\ UNCHANGED <<db, settings, progress, ghost, req, resp, best, highest>>

\* unlock_next returning before it reads the store
UnlockIgnored(player_id, won_level) ==
    /\ OutOfRange(won_level) \/ db = "None"
    /\ req' = [op |-> "unlock_next", player_id |-> player_id, won_level |-> won_level]
    /\ resp' = StatusOk
    /\ UNCHANGED <<db, settings, progress, ghost, best, inflight, highest>>

\* create_document of the default record
UnlockCreate(r) ==
    /\ r.op = "unlock_next" /\ r.pc = "create"
    /\ progress' = CreatedIfAbsent(progress, r.rec, r.player_id)
    /\ Advance(r, [r EXCEPT !.pc = "refind"])
    /\ highest' = Highest(progress')
    /\ UNCHANGED <<db, settings, ghost, req, resp, best>>

\* the find_one after create_document
UnlockRefind(r) ==
    /\ r.op = "unlock_next" /\ r.pc = "refind"
    /\ \E rec \in FindOne(progress, [player_id |-> r.player_id]) :
          Advance(r, [r EXCEPT !.pc = "compare", !.rec = rec])
    /\ UNCHANGED <<db, settings, progress, ghost, req, resp, best, highest>>

\* the comparison with the record read, the update_one and the return
UnlockWrite(r) ==
    /\ r.op = "unlock_next" /\ r.pc = "compare"
    /\ progress' \in UnlockWritten(progress, r.rec, r.player_id, r.won_level)
    /\ Return(r)
    /\ req' = [op |-> "unlock_next", player_id |-> r.player_id, won_level |-> r.won_level]
    /\ resp' = StatusOk
    /\ highest' = Highest(progress')
    /\ UNCHANGED <<db, settings, ghost, best>>

\* get_progress answering at once: no database, or the record is found
ProgressRead(player_id) ==
    /\ req' = [op |-> "get_progress", player_id |-> player_id]
    /\ IF db = "None"
       THEN resp' = Ok(ProgressRecordDefault(player_id))
       ELSE \E doc \in FindOne(progress, [player_id |-> player_id]) :
               /\ doc # None
               /\ resp' = Project(doc[1], ProgressKeys)
    /\ UNCHANGED <<db, settings, progress, ghost, best, inflight, highest>>

\* get_progress up to a find_one that finds no record
ProgressFindNone(player_id) ==
    /\ db # "None"
    /\ None \in FindOne(progress, [player_id |-> player_id])
    /\ Arrive([op |-> "get_progress", pc |-> "create", player_id |-> player_id])
    /\ UNCHANGED <<db, settings, progress, ghost, req, resp, best, highest>>

\* create_document of the default record and the return
ProgressCreate(r) ==
    /\ r.op = "get_progress" /\ r.pc = "create"
    /\ progress' = CreateDocument(progress, ProgressRecordDefault(r.player_id))
    /\ Return(r)
    /\ req' = [op |-> "get_progress", player_id |-> r.player_id]
    /\ resp' = Ok(ProgressRecordDefault(r.player_id))
    /\ highest' = Highest(progress')
    /\ UNCHANGED <<db, settings, ghost, best>>

NextProgressConc ==
    \/ \E u \in ConcUnlocks : UnlockFind(u[1], u[2])
    \/ \E u \in ConcUnlocks : UnlockIgnored(u[1], u[2])
    \/ \E r \in BagToSet(inflight) : UnlockCreate(r)
    \/ \E r \in BagToSet(inflight) : UnlockRefind(r)
    \/ \E r \in BagToSet(inflight) : UnlockWrite(r)
    \/ \E p \in Players : ProgressRead(p)
    \/ \E p \in Players : ProgressFindNone(p)
    \/ \E r \in BagToSet(inflight) : ProgressCreate(r)

SpecProgressConc == Init /\ [][NextProgressConc]_vars

\* get_settings answering at once: no database, or the record is found
SettingsRead(player_id) ==
    /\ req' = [op |-> "get_settings", player_id |-> player_id]
    /\ IF db = "None"
       THEN resp' = Ok(DefaultSettingsBody)
       ELSE \E doc \in FindOne(settings, [player_id |-> player_id]) :
               /\ doc # None
               /\ resp' = Project(doc[1], SettingsKeys)
    /\ UNCHANGED <<db, settings, progress, ghost, best, inflight, highest>>

\* get_settings up to a find_one that finds no record
SettingsFindNone(player_id) ==
    /\ db # "None"
    /\ None \in FindOne(settings, [player_id |-> player_id])
    /\ Arrive([op |-> "get_settings", pc |-> "create", player_id |-> player_id])
    /\ UNCHANGED <<db, settings, progress, ghost, req, resp, best, highest>>

\* create_document of the default record and the return
SettingsCreate(r) ==
    /\ r.op = "get_settings" /\ r.pc = "create"
    /\ settings' = CreateDocument(settings, PlayerSettingsDefault(r.player_id))
    /\ Return(r)
    /\ req' = [op |-> "get_settings", player_id |-> r.player_id]
    /\ resp' = Ok(PlayerSettingsDefault(r.player_id))
    /\ UNCHANGED <<db, progress, ghost, best, highest>>

\* update_settings with no database
SettingsUpdateUnstored(player_id, payload) ==
    /\ db = "None"
    /\ req' = [op |-> "update_settings", player_id |-> player_id, payload |-> payload]
    /\ resp' = Ok(SetFields(SetFields([player_id |-> player_id], DefaultSettingsBody),
                            NotNoneFields(payload)))
    /\ UNCHANGED <<db, settings, progress, ghost, best, inflight, highest>>

\* update_settings up to its update_one
SettingsUpdateOne(player_id, payload) ==
    /\ db # "None"
    /\ settings' \in UpdateOne(settings, [player_id |-> player_id],
                               NotNoneFields(payload), TRUE)
    /\ Arrive([op |-> "update_settings", pc |-> "find",
               player_id |-> player_id, payload |-> payload])
    /\ UNCHANGED <<db, progress, ghost, req, resp, best, highest>>

\* the find_one after update_one, the projection and the return
SettingsUpdateFind(r) ==
    /\ r.op = "update_settings" /\ r.pc = "find"
    /\ \E doc \in FindOne(settings, [player_id |-> r.player_id]) :
          resp' = Project(doc[1], SettingsKeys)
    /\ Return(r)
    /\ req' = [op |-> "update_settings", player_id |-> r.player_id, payload |-> r.payload]
    /\ UNCHANGED <<db, settings, progress, ghost, best, highest>>

NextSettingsConc ==
    \/ \E p \in Players : SettingsRead(p)
    \/ \E p \in Players : SettingsFindNone(p)
    \/ \E r \in BagToSet(inflight) : SettingsCreate(r)
    \/ \E u \in ConcSettingsUpdate : SettingsUpdateUnstored(u[1], u[2])
    \/ \E u \in ConcSettingsUpdate : SettingsUpdateOne(u[1], u[2])
    \/ \E r \in BagToSet(inflight) : SettingsUpdateFind(r)

SpecSettingsConc == Init /\ [][NextSettingsConc]_vars

\* upsert_ghost up to its find_one
UpsertFind(payload) ==
    /\ db # "None"
    /\ \E existing \in FindOne(ghost, GhostFilter(payload)) :
          Arrive([op |-> "upsert_ghost", pc |-> "write",
                  payload |-> payload, existing |-> existing])
    /\ best' = Best(payload)
    /\ UNCHANGED <<db, settings, progress, ghost, req, resp, highest>>

\* upsert_ghost with no database
UpsertIgnored(payload) ==
    /\ db = "None"
    /\ req' = [op |-> "upsert_ghost", payload |-> payload]
    /\ resp' = StatusOk
    /\ best' = Best(payload)
    /\ UNCHANGED <<db, settings, progress, ghost, inflight, highest>>

\* the comparison with the record read, the update_one and the return
UpsertWrite(r) ==
    /\ r.op = "upsert_ghost" /\ r.pc = "write"
    /\ ghost' \in GhostWritten(ghost, r.payload, r.existing)
    /\ Return(r)
    /\ req' = [op |-> "upsert_ghost", payload |-> r.payload]
    /\ resp' = StatusOk
    /\ UNCHANGED <<db, settings, progress, best, highest>>

NextGhostConc ==
    \/ \E payload \in ConcGhostUpsert : UpsertFind(payload)
    \/ \E payload \in ConcGhostUpsert : UpsertIgnored(payload)
    \/ \E r \in BagToSet(inflight) : UpsertWrite(r)

SpecGhostConc == Init /\ [][NextGhostConc]_vars

----------------------------------------------------------------------------
(* Properties *)

KeyFilter(key) == [player_id |-> key[1], level |-> key[2]]

PlayerFilter(player_id) == [player_id |-> player_id]

\* how many documents of a collection match a filter
CountMatching(coll, filter) ==
    BagCardinality([doc \in Matching(coll, filter) |-> CopiesIn(doc, coll)])

\* the unlocked_upto a get_progress would return: the stored one, or the default
ProgressSeen(coll, player_id) ==
    IF StoredUnlocked(coll, player_id) = {} THEN {1} ELSE StoredUnlocked(coll, player_id)

Larger(a, b) == IF a >= b THEN a ELSE b

\* C1: with a store, after any sequence of ghost upserts run one after another,
\* each key that was submitted to holds exactly one record, and its time_ms is
\* the least time_ms submitted for that key; a key never submitted to holds none.
C1_StoredTimeIsMinimum ==
    db = "connected" =>
        \A key \in GhostKeys :
            IF best[key] = None
            THEN CountMatching(ghost, KeyFilter(key)) = 0
            ELSE /\ CountMatching(ghost, KeyFilter(key)) = 1
                 /\ \A doc \in Matching(ghost, KeyFilter(key)) : doc.time_ms = best[key][1]

\* C1 witness: a worse time (9500) was submitted last for a key whose least
\* submitted time is 7500, and the record still holds 7500.
C1_Witness ==
    /\ db = "connected"
    /\ req.op = "upsert_ghost"
    /\ req.payload.player_id = "p1" /\ req.payload.level = 3
    /\ req.payload.time_ms = 9500
    /\ best[<<"p1", 3>>] = Some(7500)
    /\ \E doc \in Matching(ghost, KeyFilter(<<"p1", 3>>)) : doc.time_ms = 7500

\* C2: over requests run one after another, a player's progress record, once
\* stored, stays stored and its unlocked_upto never decreases from one state to
\* the next.
C2_UnlockedNeverDecreases ==
    [][\A p \in Players :
         \A v \in StoredUnlocked(progress, p) :
            /\ StoredUnlocked(progress', p) # {}
            /\ \A w \in StoredUnlocked(progress', p) : w >= v]_vars

\* C2 witness: a win of level 3 was reported after level 6 was unlocked, and
\* unlocked_upto is still 6.
C2_Witness ==
    /\ db = "connected"
    /\ req = [op |-> "unlock_next", player_id |-> "p2", won_level |-> 3]
    /\ StoredUnlocked(progress, "p2") = {6}

\* C3: with a store, unlock_next(p, won_level) for won_level in 1..14 leaves
\* get_progress(p) returning max(previous, won_level + 1), previous being the
\* value before the call, 1 without a record.
C3_UnlockYieldsMax ==
    [][(db = "connected" /\ req'.op = "unlock_next") =>
          (req'.won_level \in 1 .. 14 =>
              ProgressSeen(progress', req'.player_id) =
                 {Larger(SetMax(ProgressSeen(progress, req'.player_id)),
                         req'.won_level + 1)})]_vars

\* C3 witness: a win of level 14 was reported and level 15 is unlocked.
C3_Witness ==
    /\ db = "connected"
    /\ req.op = "unlock_next"
    /\ req.won_level = 14
    /\ StoredUnlocked(progress, req.player_id) = {15}

\* C4: when two upserts for one key interleave, a step that raises the stored
\* time_ms of a key is the write of a request that read the store before the
\* better time was written (it found no record, or a record with a time_ms above
\* its own), and it stores that request's submission; the witness is the state
\* the claim describes.
C4_WorseTimeWrittenOnStaleRead ==
    [][\A key \in GhostKeys :
         \A old \in Matching(ghost, KeyFilter(key)) :
            \A new \in Matching(ghost', KeyFilter(key)) :
               new.time_ms > old.time_ms =>
                  \E r \in BagToSet(inflight) :
                     /\ CopiesIn(r, inflight') < CopiesIn(r, inflight)
                     /\ r.op = "upsert_ghost"
                     /\ r.payload = new
                     /\ \/ r.existing = None
                        \/ r.existing[1].time_ms > r.payload.time_ms]_vars

\* C4 witness: every request has completed, 5500 and 7500 were submitted for
\* (p1, 3), and the one record of that key holds 7500.
C4_Witness ==
    /\ db = "connected"
    /\ inflight = EmptyBag
    /\ best[<<"p1", 3>>] = Some(5500)
    /\ CountMatching(ghost, KeyFilter(<<"p1", 3>>)) = 1
    /\ \E doc \in Matching(ghost, KeyFilter(<<"p1", 3>>)) : doc.time_ms = 7500

\* C5: when unlock_next requests for one player interleave, a step that lowers
\* the unlocked_upto of a stored record is the write of a request that read the
\* record before the higher value was written (the value it read is at most its
\* won_level), and it writes that request's won_level + 1; the witness is the
\* state the claim describes.
C5_LowerValueWrittenOnStaleRead ==
    [][\A p \in Players :
         \A old \in Matching(progress, PlayerFilter(p)) :
            \A new \in Matching(progress', PlayerFilter(p)) :
               (/\ CopiesIn(old, progress') < CopiesIn(old, progress)
                /\ CopiesIn(new, progress') > CopiesIn(new, progress)
                /\ new.unlocked_upto < old.unlocked_upto) =>
                  \E r \in BagToSet(inflight) :
                     /\ CopiesIn(r, inflight') < CopiesIn(r, inflight)
                     /\ r.op = "unlock_next"
                     /\ r.player_id = p
                     /\ new.unlocked_upto = r.won_level + 1
                     /\ r.rec # None
                     /\ r.rec[1].unlocked_upto <= r.won_level]_vars

\* C5 witness: every request has completed, p1 has one record, it was set to 15
\* (a win of level 14) and now holds 4 (a win of level 3).
C5_Witness ==
    /\ db = "connected"
    /\ inflight = EmptyBag
    /\ CountMatching(progress, PlayerFilter("p1")) = 1
    /\ StoredUnlocked(progress, "p1") = {4}
    /\ highest["p1"] = 15

\* C6: unlock_next with won_level < 1 or won_level >= 15 answers {status: ok}
\* and leaves the progress collection as it was.
C6_OutOfRangeWinIsNoOp ==
    [][req'.op = "unlock_next" =>
          ((req'.won_level < 1 \/ req'.won_level >= 15) =>
              /\ progress' = progress
              /\ resp' = [status |-> 200, body |-> [status |-> "ok"]])]_vars

\* C6 witness: with a store, a win of level 15 was reported and no record exists.
C6_Witness ==
    /\ db = "connected"
    /\ req.op = "unlock_next"
    /\ req.won_level = 15
    /\ progress = EmptyBag

\* C7 (as claimed): with a store, update_settings for a player without a
\* settings record answers 200 with the full record {player_id, volume,
\* vibration, language}, which is then the player's stored record, so that a
\* following get_settings returns it.
C7_UpdateCreatesFullRecord ==
    [][(db = "connected" /\ req'.op = "update_settings") =>
          (Matching(settings, PlayerFilter(req'.player_id)) = {} =>
              /\ resp'.status = 200
              /\ DOMAIN resp'.body = SettingsKeys
              /\ Matching(settings', PlayerFilter(req'.player_id)) = {resp'.body})]_vars

\* C8 (as claimed): with a store, update_settings for a player with a settings
\* record keeps every field not supplied as stored, sets the supplied ones, and
\* answers 200 with the stored record.
C8_UpdateChangesOnlySupplied ==
    [][(db = "connected" /\ req'.op = "update_settings") =>
          \A old \in Matching(settings, PlayerFilter(req'.player_id)) :
             /\ resp'.status = 200
             /\ Matching(settings', PlayerFilter(req'.player_id)) = {resp'.body}
             /\ \A k \in {"volume", "vibration", "language"} :
                   IF req'.payload[k] # None
                   THEN k \in DOMAIN resp'.body /\ resp'.body[k] = req'.payload[k][1]
                   ELSE /\ k \in DOMAIN old <=> k \in DOMAIN resp'.body
                        /\ k \in DOMAIN old => resp'.body[k] = old[k]]_vars

\* C9 (as claimed): with a store, a ghost upsert with a level outside 1..15 or
\* a negative time_ms is answered with a validation error (422) and leaves the
\* ghost collection as it was.
C9_InvalidGhostRejected ==
    [][(db = "connected" /\ req'.op = "upsert_ghost") =>
          ((req'.payload.level \notin 1 .. 15 \/ req'.payload.time_ms < 0) =>
              /\ resp'.status = 422
              /\ ghost' = ghost)]_vars

\* C10 (as claimed): with a store, update_settings with a language outside
\* {en, es} is answered with a validation error (422) and leaves the settings
\* collection as it was, and every stored language is en or es.
C10_InvalidLanguageRejected ==
    [][/\ (db = "connected" /\ req'.op = "update_settings") =>
             ((req'.payload.language # None /\ req'.payload.language[1] \notin {"en", "es"}) =>
                 /\ resp'.status = 422
                 /\ settings' = settings)
       /\ \A doc \in BagToSet(settings') :
             "language" \in DOMAIN doc => doc.language \in {"en", "es"}]_vars


RECURSIVE TotalTime(_, _)
\* the sum of time_ms over the documents docs of a collection, copies counted
TotalTime(docs, coll) ==
    IF docs = {} THEN 0
    ELSE LET doc == CHOOSE d \in docs : TRUE
         IN doc.time_ms * CopiesIn(doc, coll) + TotalTime(docs \ {doc}, coll)

\* C11: with a store, classification(p) answers Bronze when p has no stored
\* ghost record; otherwise, with n records of total time_ms t, it answers Gold
\* if t/n < 5500, Silver if 5500 <= t/n < 7500 and Bronze if t/n >= 7500.
C11_TierFromMean ==
    (db = "connected" /\ req.op = "classification") =>
        LET filter == PlayerFilter(req.player_id)
            n == CountMatching(ghost, filter)
            t == TotalTime(Matching(ghost, filter), ghost)
        IN /\ resp.status = 200
           /\ resp.body.tier =
                 IF n = 0 THEN "Bronze"
                 ELSE IF t < 5500 * n THEN "Gold"
                 ELSE IF t >= 5500 * n /\ t < 7500 * n THEN "Silver"
                 ELSE "Bronze"

\* C11 witness: p1 holds two records, 5500 and 9500 (a mean of exactly 7500),
\* and is classified Bronze.
C11_Witness ==
    /\ db = "connected"
    /\ req = [op |-> "classification", player_id |-> "p1"]
    /\ {doc.time_ms : doc \in Matching(ghost, PlayerFilter("p1"))} = {5500, 9500}
    /\ resp.body.tier = "Bronze"


\* C13: with a store, get_ghost(p, level) with no record stored for (p, level)
\* answers the generic ghost: time_ms 8000 and 10 segments of kind tap, segment
\* i (from 0) from 700*i to 700*i + 120; with a record stored it answers that
\* record's time_ms and inputs.
C13_GhostOrGenericFallback ==
    (db = "connected" /\ req.op = "get_ghost") =>
        LET stored == Matching(ghost, [player_id |-> req.player_id, level |-> req.level])
        IN /\ resp.status = 200
           /\ resp.body.player_id = req.player_id
           /\ resp.body.level = req.level
           /\ IF stored = {}
              THEN /\ resp.body.time_ms = 8000
                   /\ Len(resp.body.inputs) = 10
                   /\ \A i \in 0 .. 9 :
                         resp.body.inputs[i + 1] =
                            [start_ms |-> 700 * i, end_ms |-> 700 * i + 120, kind |-> "tap"]
              ELSE \E doc \in stored :
                      /\ resp.body.time_ms = doc.time_ms
                      /\ resp.body.inputs = doc.inputs

\* C13 witness: get_ghost(p1, 3) answered the generic ghost while another key of
\* p1 holds a record.
C13_Witness ==
    /\ db = "connected"
    /\ req = [op |-> "get_ghost", player_id |-> "p1", level |-> 3]
    /\ Matching(ghost, KeyFilter(<<"p1", 3>>)) = {}
    /\ Matching(ghost, KeyFilter(<<"p1", 0>>)) # {}
    /\ resp.body.time_ms = 8000

\* C14: get_ghost leaves the ghost collection as it was, and with a store a
\* player for whom nothing was submitted holds no record and is classified
\* Bronze, whatever was read before.
C14_GetGhostPersistsNothing ==
    [][/\ req'.op = "get_ghost" => ghost' = ghost
       /\ (db = "connected" /\ req'.op = "classification") =>
             ((\A key \in GhostKeys : key[1] = req'.player_id => best'[key] = None) =>
                 /\ Matching(ghost', PlayerFilter(req'.player_id)) = {}
                 /\ resp'.body.tier = "Bronze")]_vars

\* C14 witness: get_ghost(p2, 3) answered the generic ghost, nothing was
\* submitted for p2, and the collection holds no record of p2.
C14_Witness ==
    /\ db = "connected"
    /\ req = [op |-> "get_ghost", player_id |-> "p2", level |-> 3]
    /\ resp.body.time_ms = 8000
    /\ best[<<"p2", 3>>] = None
    /\ Matching(ghost, PlayerFilter("p2")) = {}
    /\ ghost # EmptyBag

\* C19: a ghost upsert whose time_ms equals that of the record stored for its
\* key leaves the ghost collection as it was, inputs included, and answers
\* {status: ok}.
C19_TieIsDiscarded ==
    [][req'.op = "upsert_ghost" =>
          ((\E doc \in Matching(ghost, [player_id |-> req'.payload.player_id,
                                        level |-> req'.payload.level]) :
               doc.time_ms = req'.payload.time_ms) =>
              /\ ghost' = ghost
              /\ resp' = [status |-> 200, body |-> [status |-> "ok"]])]_vars

\* C19 witness: the last upsert had the stored time_ms and other inputs than the
\* stored record.
C19_Witness ==
    /\ db = "connected"
    /\ req.op = "upsert_ghost"
    /\ \E doc \in Matching(ghost, [player_id |-> req.payload.player_id,
                                   level |-> req.payload.level]) :
          /\ doc.time_ms = req.payload.time_ms
          /\ doc.inputs # req.payload.inputs


\* C18: with a store, get_progress for a player without a progress record
\* answers unlocked_upto = 1 and stores the record, so that afterwards the
\* player has exactly one record, with unlocked_upto = 1.
C18_FirstReadCreatesLevelOne ==
    [][(db = "connected" /\ req'.op = "get_progress") =>
          (Matching(progress, PlayerFilter(req'.player_id)) = {} =>
              /\ resp' = [status |-> 200,
                          body |-> [player_id |-> req'.player_id, unlocked_upto |-> 1]]
              /\ CountMatching(progress', PlayerFilter(req'.player_id)) = 1
              /\ StoredUnlocked(progress', req'.player_id) = {1})]_vars

\* C18 witness: get_progress(p2) answered 1 and p2 has one record, holding 1,
\* while p1 has unlocked further.
C18_Witness ==
    /\ db = "connected"
    /\ req = [op |-> "get_progress", player_id |-> "p2"]
    /\ resp.body.unlocked_upto = 1
    /\ CountMatching(progress, PlayerFilter("p2")) = 1
    /\ StoredUnlocked(progress, "p2") = {1}
    /\ StoredUnlocked(progress, "p1") = {4}


\* C16: however get_progress and unlock_next requests interleave, every stored
\* progress record has 1 <= unlocked_upto <= 15.
C16_UnlockedWithinLevels ==
    \A doc \in BagToSet(progress) : doc.unlocked_upto >= 1 /\ doc.unlocked_upto <= 15

\* C16 witness: p1 has unlocked level 15 by a win of level 14, a win of level 15
\* was then reported for p1, and interleaved reads have created two records of p2.
C16_Witness ==
    /\ db = "connected"
    /\ StoredUnlocked(progress, "p1") = {15}
    /\ req = [op |-> "unlock_next", player_id |-> "p1", won_level |-> 15]
    /\ CountMatching(progress, PlayerFilter("p2")) = 2


\* C12: in every reachable state, also when get_settings and update_settings
\* requests interleave, the settings collection holds at most one record per
\* player_id.
C12_OneSettingsRecordPerPlayer ==
    \A p \in Players : CountMatching(settings, PlayerFilter(p)) <= 1


\* C15: with no database configured every endpoint answers 200 and no
\* collection ever holds a record: get_settings returns volume true, vibration
\* true, language es; get_progress returns unlocked_upto 1; get_ghost returns
\* the generic ghost; classification returns Bronze; unlock_next and
\* upsert_ghost return status ok.
C15_DefaultsWithoutDatabase ==
    db = "None" =>
        /\ settings = EmptyBag /\ progress = EmptyBag /\ ghost = EmptyBag
        /\ req.op # "none" => resp.status = 200
        /\ req.op = "get_settings" =>
              resp.body = [volume |-> TRUE, vibration |-> TRUE, language |-> "es"]
        /\ req.op = "get_progress" =>
              resp.body = [player_id |-> req.player_id, unlocked_upto |-> 1]
        /\ req.op = "get_ghost" => resp.body = GenericGhost(req.player_id, req.level)
        /\ req.op = "classification" => resp.body = [tier |-> "Bronze"]
        /\ req.op \in {"unlock_next", "upsert_ghost"} => resp.body = [status |-> "ok"]

\* C15 witness: with no database a time of 5500 was submitted for p1 (a stored
\* 5500 would make p1 Silver), then p1's classification was asked and is Bronze.
C15_Witness ==
    /\ db = "None"
    /\ best[<<"p1", 3>>] = Some(5500)
    /\ req = [op |-> "classification", player_id |-> "p1"]
    /\ resp.body = [tier |-> "Bronze"]
    /\ ghost = EmptyBag

\* C17: a request that immediately follows the same request changes no
\* collection and gets the response the first one got.
C17_RetryIsIdempotent ==
    [][(req' = req /\ req.op # "none") =>
          /\ settings' = settings /\ progress' = progress /\ ghost' = ghost
          /\ resp' = resp]_vars

\* C17 witness: a win of level 3 was reported for p1 and has unlocked level 4;
\* the same report made again compares 3 with 4.
C17_Witness ==
    /\ db = "connected"
    /\ req = [op |-> "unlock_next", player_id |-> "p1", won_level |-> 3]
    /\ StoredUnlocked(progress, "p1") = {4}
    /\ resp = StatusOk


\* C20: also when upserts interleave, every step that changes the ghost
\* collection is the write of one request in progress, leaves for that
\* request's (player_id, level) exactly one record, equal in every field to that
\* request's submission, and leaves the records of every other key as they were.
C20_RecordIsOneSubmission ==
    [][ghost' # ghost =>
          \E r \in BagToSet(inflight) :
             /\ inflight' = inflight (-) SetToBag({r})
             /\ Matching(ghost', GhostFilter(r.payload)) = {r.payload}
             /\ CountMatching(ghost', GhostFilter(r.payload)) = 1
             /\ \A key \in GhostKeys :
                   key # <<r.payload.player_id, r.payload.level>> =>
                      /\ Matching(ghost', KeyFilter(key)) = Matching(ghost, KeyFilter(key))
                      /\ CountMatching(ghost', KeyFilter(key))
                            = CountMatching(ghost, KeyFilter(key))]_vars

\* C20 witness: 7500 and 5500 were submitted for (p1, 3) with different inputs,
\* every request has completed, the record of (p1, 3) is the submission of 5500
\* with its tap, and the record of (p2, 3) is p2's submission.
C20_Witness ==
    /\ db = "connected"
    /\ inflight = EmptyBag
    /\ req = [op |-> "upsert_ghost",
              payload |-> [player_id |-> "p1", level |-> 3, time_ms |-> 5500,
                           inputs |-> TapTrace]]
    /\ Matching(ghost, KeyFilter(<<"p1", 3>>))
          = {[player_id |-> "p1", level |-> 3, time_ms |-> 5500, inputs |-> TapTrace]}
    /\ Matching(ghost, KeyFilter(<<"p2", 3>>))
          = {[player_id |-> "p2", level |-> 3, time_ms |-> 5500, inputs |-> << >>]}

====
